---------------------------- MODULE Spec2Model ----------------------------
(***************************************************************************)
(* Boneh-Franklin IBE and Bethencourt-Sahai-Waters CP-ABE as implemented   *)
(* in src/src/CryptID_ABE.c, at a scaled-down security level.              *)
(*                                                                         *)
(* Representation.  E(F_p) for y^2 = x^3 + 1 with p = 12rq - 1 is cyclic   *)
(* of order p + 1 = 12rq; an AffinePoint is its discrete logarithm in      *)
(* Z_(p+1) with respect to a fixed generator of E(F_p), 0 being the point  *)
(* at infinity.  Complex values are pairs <<real, imaginary>> of F_p^2     *)
(* with i^2 = -1.  Byte strings are sets of GF(2) basis atoms, XOR being   *)
(* the symmetric difference; the SHA-family functions are ideal, every     *)
(* distinct input giving its own atom.                                     *)
(***************************************************************************)
EXTENDS Integers, Sequences, FiniteSets, TLC

(***************************************************************************)
(* Bounds of the model.                                                    *)
(***************************************************************************)
\* random_mpzOfLength(r, lengthOfR) draws r from 1..MaxR
MaxR == 2
\* the retry loops of the library are capped at this many attempts
\* (SOLINAS_GENERATION_ATTEMPT_LIMIT, POINT_GENERATION_ATTEMPT_LIMIT: 100)
AttemptCap == 2
\* iterations of an uncapped loop are counted up to AttemptCap + LoopSlack
LoopSlack == 1
\* message lengths 1..MaxMsgLen octets
MaxMsgLen == 1

\* the Solinas primes random_solinasPrime can return at this level
SolinasPrimes == {5}

(***************************************************************************)
(* Modular arithmetic (gmp: mpz_mod, mpz_powm, mpz_invert).                *)
(***************************************************************************)
RECURSIVE ModPow(_, _, _)
ModPow(b, e, m) ==
    IF e = 0 THEN 1 % m
    ELSE LET h == ModPow(b, e \div 2, m)
             sq == (h * h) % m
         IN  IF e % 2 = 1 THEN (sq * (b % m)) % m ELSE sq

\* mpz_invert: 0 when no inverse exists (gmp then leaves the result undefined
\* and returns 0; callers below never check)
ModInverse(a, m) ==
    IF \E x \in 1..(m - 1) : (x * (a % m)) % m = 1
    THEN CHOOSE x \in 1..(m - 1) : (x * (a % m)) % m = 1
    ELSE 0

IsPrime(n) == n > 1 /\ \A d \in 2..(n - 1) : d * d > n \/ n % d # 0


(***************************************************************************)
(* Complex: F_p^2 with i^2 = -1, values <<real, imaginary>>.               *)
(***************************************************************************)
complex_initLong(re, im) == <<re, im>>

complex_modMul(x, y, p) ==
    << (x[1] * y[1] + (p - 1) * ((x[2] * y[2]) % p)) % p,
       (x[1] * y[2] + x[2] * y[1]) % p >>

complex_modMulScalar(x, s, p) == << (x[1] * (s % p)) % p, (x[2] * (s % p)) % p >>

\* square and multiply; power[k] is x^k
complex_modPow(x, e, p) ==
    LET power[k \in 0..e] ==
            IF k = 0 THEN <<1, 0>>
            ELSE LET h == power[k \div 2]
                     sq == complex_modMul(h, h, p)
                 IN  IF k % 2 = 1 THEN complex_modMul(sq, x, p) ELSE sq
    IN  power[e]

\* (a - bi) / (a^2 + b^2); fails when a^2 + b^2 = 0 mod p
complex_multiplicativeInverse(x, p) ==
    LET norm == (x[1] * x[1] + x[2] * x[2]) % p
        ninv == ModInverse(norm, p)
    IN  IF norm = 0
        THEN [status |-> "InverseNonInvertible", value |-> <<0, 0>>]
        ELSE [status |-> "SUCCESS",
              value |-> << (x[1] * ninv) % p, ((p - x[2]) * ninv) % p >>]

(***************************************************************************)
(* EllipticCurve and AffinePoint.  A point is its discrete logarithm in    *)
(* Z_(p+1); the group law is addition of logarithms.                       *)
(***************************************************************************)
ellipticCurve_init(a, b, p) == [a |-> a, b |-> b, fieldOrder |-> p]

GroupOrder(ec) == ec.fieldOrder + 1

affine_infinity == 0

affine_isInfinity(pt) == pt = affine_infinity

affine_isEquals(x, y) == x = y

affine_add(x, y, ec) == (x + y) % GroupOrder(ec)

\* affine_wNAFMultiply / AFFINE_MULTIPLY_IMPL: s * pt
affine_multiply(s, pt, ec) == (s * pt) % GroupOrder(ec)

(***************************************************************************)
(* Tate pairing, reduced: bilinear with values in the q-th roots of unity  *)
(* of F_p^2.  It fails on the point at infinity (Miller's loop finds T at  *)
(* infinity).                                                              *)
(***************************************************************************)
\* an element of order q of F_p^2, as the final exponentiation of the pairing
\* finds it: z^((p^2 - 1) / q) = (conj(z) / z)^((p + 1) / q), for the first
\* seed z that does not give 1
PairingBaseOf(p, q) ==
    LET unit(z) == complex_modMul(<<z[1], (p - z[2]) % p>>,
                                  complex_multiplicativeInverse(z, p).value, p)
        powers == {complex_modPow(unit(z), (p + 1) \div q, p) :
                      z \in {<<a, b>> : a \in 1..2, b \in 1..3}}
    IN  CHOOSE w \in powers : w # <<1, 0>>

\* the field orders 12rq - 1 that cryptid_setup can reach
FieldOrders == {p \in {12 * r * q - 1 : r \in 1..MaxR, q \in SolinasPrimes} : IsPrime(p)}

PairingBases == [p \in FieldOrders |-> [q \in SolinasPrimes |-> PairingBaseOf(p, q)]]

PairingBase(p, q) == PairingBases[p][q]

tate_performPairing(embeddingDegree, ec, q, a, b) ==
    IF embeddingDegree # 2
    THEN [status |-> "IllegalEmbeddingDegree", value |-> <<0, 0>>]
    ELSE IF affine_isInfinity(a) \/ affine_isInfinity(b)
    THEN [status |-> "PairingDegenerate", value |-> <<0, 0>>]
    ELSE [status |-> "SUCCESS",
          value |-> complex_modPow(PairingBase(ec.fieldOrder, q), (a * b) % q,
                                   ec.fieldOrder)]

(***************************************************************************)
(* Byte strings and the hash primitives of util/Utils.h.                   *)
(***************************************************************************)
BitAtom(k) == [kind |-> "bit", n |-> k, arg |-> {}]

\* an exclusive or that drops its second operand
Xor_left(x, y) == x

\* the loops dst[i] = x[i] ^ y[i] of cryptid_encrypt and cryptid_decrypt
Xor(x, y) == (x \ y) \cup (y \ x)

\* the octet string of n (big-endian, width octets) as the set of its 1 bits
BitsOf(n, width) == {BitAtom(k) : k \in {j \in 0..(8 * width - 1) : (n \div (2 ^ j)) % 2 = 1}}

\* a concatenation that drops its second half
Concat_first(x, y) == {[kind |-> "lo", n |-> 0, arg |-> x]}

\* concat = x || y, the two copy loops of cryptid_encrypt and cryptid_decrypt
Concat(x, y) == {[kind |-> "lo", n |-> 0, arg |-> x], [kind |-> "hi", n |-> 0, arg |-> y]}

\* hashFunction.sha_hash(message, length): a digest of hashLength octets
sha_hash(m, len) == {[kind |-> "sha", n |-> len, arg |-> m]}

\* hashBytes(b, p, pLength): b pseudo-random octets keyed by p
hashBytes(b, p, pLength) == {[kind |-> "prg", n |-> b, arg |-> p]}

OctetLen(p) == IF p <= 256 THEN 1 ELSE 2

\* canonical(p, v, order): the two components, each OctetLen(p) octets
canonical(p, v, order) ==
    LET w == OctetLen(p)
        hi == IF order = 1 THEN v[2] ELSE v[1]
        lo == IF order = 1 THEN v[1] ELSE v[2]
    IN  [bytes |-> BitsOf(hi * (256 ^ w) + lo, 2 * w), length |-> 2 * w]


(***************************************************************************)
(* Random sources (util/Random.h).                                         *)
(***************************************************************************)
\* how many of the low values of a range the draws below try
RandWidth == 2

\* random_mpzInRange(v, bound): the values it can store, a sample of [0, bound)
random_mpzInRange(bound) == {v \in 0..(bound - 1) : v < RandWidth}

\* random_mpzOfLength(r, lengthOfR)
random_mpzOfLength == 1..MaxR

\* random_solinasPrime(q, nbits, limit): success at one of its limit attempts,
\* or failure once they are used up
random_solinasPrime(limit) ==
    {[status |-> "SUCCESS", q |-> q, attempts |-> n] : q \in SolinasPrimes, n \in 1..limit}
    \cup {[status |-> "SolinasGenFailed", q |-> 0, attempts |-> limit]}

\* random_affinePoint(result, ec, limit): a point of E(F_p), of any order
random_affinePoint(ec, q, limit) ==
    {[status |-> "SUCCESS", point |-> x, attempts |-> n] : x \in {1, q}, n \in 1..limit}
    \cup {[status |-> "PointGenFailed", point |-> 0, attempts |-> limit]}

(***************************************************************************)
(* The ledger of the temporaries a call holds: big integers, points and    *)
(* heap buffers it acquired (mpz_init, calloc, a returned object) and has  *)
(* not yet released (mpz_clear, free, *_destroy) or handed to its caller.  *)
(***************************************************************************)
EmptyLedger == [held |-> {}, twice |-> {}, lost |-> {}]

\* what was last done to the object of event i before it: "acq", "rel",
\* "out", or "none"
LedgerBefore(l, evs, i) ==
    LET js == {j \in 1..(i - 1) : evs[j][2] = evs[i][2]}
    IN  IF js # {} THEN evs[CHOOSE j \in js : \A k \in js : k <= j][1]
        ELSE IF evs[i][2] \in l.held THEN "acq" ELSE "none"

\* the ledger after the events evs: an acquisition into a variable that
\* still owns an object loses that object; a release of a variable that owns
\* nothing is a double release; "out" passes the object to the caller
LedgerRun(l, evs) ==
    LET names == l.held \cup {evs[i][2] : i \in 1..Len(evs)}
        last(n) == LET js == {j \in 1..Len(evs) : evs[j][2] = n}
                   IN  IF js = {} THEN "acq"
                       ELSE evs[CHOOSE j \in js : \A k \in js : k <= j][1]
    IN  [held  |-> {n \in names : last(n) = "acq"},
         twice |-> l.twice \cup {evs[i][2] : i \in {j \in 1..Len(evs) :
                       evs[j][1] = "rel" /\ LedgerBefore(l, evs, j) # "acq"}},
         lost  |-> l.lost \cup {evs[i][2] : i \in {j \in 1..Len(evs) :
                       evs[j][1] = "acq" /\ LedgerBefore(l, evs, j) = "acq"}}]

Acq(names) == [i \in 1..Len(names) |-> <<"acq", names[i]>>]
Rel(names) == [i \in 1..Len(names) |-> <<"rel", names[i]>>]
Out(names) == [i \in 1..Len(names) |-> <<"out", names[i]>>]


(***************************************************************************)
(* State.                                                                  *)
(***************************************************************************)
VARIABLES
    pc,                 \* control point of the running call, "idle" between calls
    loc,                \* locals of the running setup call
    tries,              \* attempts made by the running or last setup call
    ret,                \* [call, status] of the last call that returned
    calls,              \* parity of the number of calls that have returned
    ledger,             \* temporaries of the running or last call (followed for
                        \* the IBE calls and cryptid_setup_ABE, empty otherwise)
    publicParameters,   \* IBE PublicParameters of the caller
    masterSecret,       \* IBE master secret of the caller
    privateKey,         \* [id, point]: the key cryptid_extract stored
    ciphertext,         \* the CipherTextTuple the caller holds
    plain,              \* [message, length, identity] last given to cryptid_encrypt
    result,             \* char *result of the caller of cryptid_decrypt
    oracle,             \* hashToRange as evaluated so far: a set of [in, out]
    tampered,           \* which part of the ciphertext was altered in transit
    publickey,          \* PublicKey_ABE of the caller
    masterkey,          \* MasterKey_ABE of the caller
    secretkey,          \* SecretKey_ABE of the caller
    accessTree,         \* the AccessTree the caller built, with its annotations
    encrypted,          \* EncryptedMessage_ABE of the caller
    abePlain,           \* the message last given to cryptid_encrypt_ABE
    resultABE,          \* char *result of the caller of cryptid_decrypt_ABE
    printed,            \* what cryptid_decrypt_ABE printed as the decrypted value
    inner,              \* what the calls nested in the last ABE call did
    done,               \* status of the last call of each ABE operation
    encrypted2,         \* a second EncryptedMessage_ABE of the caller
    lagrange            \* a call of Lagrange_coefficient: its arguments and results

ctlVars == <<pc, loc, tries, ret, calls, ledger>>
ibeVars == <<publicParameters, masterSecret, privateKey, ciphertext, plain, result, oracle,
            tampered>>
abeVars == <<publickey, masterkey, secretkey, accessTree, encrypted, abePlain, resultABE,
            printed, inner, done>>
moreVars == <<encrypted2, lagrange>>
vars == <<ctlVars, ibeVars, abeVars, moreVars>>

NoCurve == [a |-> 0, b |-> 0, fieldOrder |-> 0]
NoLocals == [q |-> 0, r |-> 0, p |-> 0, ec |-> NoCurve, pointP |-> 0]
NoTries == [solinas |-> 0, prime |-> 0, point |-> 0, pointLoop |-> 0]
NoBytes == [bytes |-> {}, length |-> 0]

\* a PublicParameters the caller has declared and not yet had filled in
NoPublicParameters ==
    [ellipticCurve |-> NoCurve, q |-> 0, pointP |-> 0, pointPpublic |-> 0,
     hashFunction |-> [hashLength |-> 0]]

NoCipherText ==
    [cipherU |-> 0, cipherV |-> {}, cipherVLength |-> 0, cipherW |-> {}, cipherWLength |-> 0]

NoKey == [id |-> "", point |-> 0]
NoPlain == [message |-> NoBytes, identity |-> ""]
NoResult == [written |-> FALSE, bytes |-> {}, length |-> 0]

hashFunction_initForSecurityLevel == [hashLength |-> 1]

Return(call, st) == /\ ret' = [call |-> call, status |-> st]
                    /\ calls' = 1 - calls
                    /\ pc' = "idle"


(***************************************************************************)
(* cryptid_setup, in steps: the call up to the first loop, one iteration   *)
(* of each do-while loop, and the rest of the body.                        *)
(***************************************************************************)
validation_isProbablePrime(p) == IsPrime(p)

\* the scalar multiplication reports an error only for a point off the curve
affine_multiplyStatus(s, pt, ec) ==
    IF pt \in 0..(GroupOrder(ec) - 1) THEN "SUCCESS" ELSE "AffinePointOutOfField"

\* lines 534-557
cryptid_setup_call ==
    /\ pc = "idle"
    /\ publicParameters = NoPublicParameters
    /\ \E given \in BOOLEAN :
         IF ~given
         THEN /\ Return("cryptid_setup", "PUBLIC_PARAMETERS_NULL_ERROR")
              /\ ledger' = EmptyLedger
              /\ tries' = NoTries
              /\ loc' = NoLocals
         ELSE \E sol \in random_solinasPrime(AttemptCap) :
                /\ tries' = [NoTries EXCEPT !.solinas = sol.attempts]
                /\ IF sol.status # "SUCCESS"
                   THEN /\ ledger' = LedgerRun(EmptyLedger, Acq(<<"q">>) \o Rel(<<"q">>))
                        /\ loc' = NoLocals
                        /\ Return("cryptid_setup", sol.status)
                   ELSE /\ ledger' = LedgerRun(EmptyLedger, Acq(<<"q", "r", "p">>))
                        /\ loc' = [NoLocals EXCEPT !.q = sol.q]
                        /\ pc' = "setup_prime"
                        /\ UNCHANGED <<ret, calls>>
    /\ UNCHANGED ibeVars
    /\ UNCHANGED <<abeVars, moreVars>>

\* lines 558-573: one iteration of do { r; p = 12 r q - 1 } while (!prime)
cryptid_setup_primeLoop ==
    /\ pc = "setup_prime"
    /\ tries.prime < AttemptCap + LoopSlack
    /\ \E r \in random_mpzOfLength :
         LET p == 12 * r * loc.q - 1
         IN  /\ tries' = [tries EXCEPT !.prime = @ + 1]
             /\ IF validation_isProbablePrime(p)
                THEN /\ loc' = [loc EXCEPT !.r = r, !.p = p,
                                           !.ec = ellipticCurve_init(0, 1, p)]
                     /\ ledger' = LedgerRun(ledger, Acq(<<"zero", "one", "ec">>)
                                                    \o Rel(<<"zero", "one">>))
                     /\ pc' = "setup_point"
                ELSE /\ loc' = [loc EXCEPT !.r = r, !.p = p]
                     /\ UNCHANGED <<ledger, pc>>
    /\ UNCHANGED <<ret, calls, ibeVars>>
    /\ UNCHANGED <<abeVars, moreVars>>

\* lines 577-606: one iteration of do { P' random; P = 12 r P' } while (P = infinity)
cryptid_setup_pointLoop ==
    /\ pc = "setup_point"
    /\ tries.pointLoop < AttemptCap + LoopSlack
    /\ \E pt \in random_affinePoint(loc.ec, loc.q, AttemptCap) :
         /\ tries' = [tries EXCEPT !.point = pt.attempts, !.pointLoop = @ + 1]
         /\ IF pt.status # "SUCCESS"
            THEN /\ ledger' = LedgerRun(ledger, Rel(<<"p", "q", "r", "ec">>))
                 /\ loc' = NoLocals
                 /\ Return("cryptid_setup", pt.status)
            ELSE LET st == affine_multiplyStatus(12 * loc.r, pt.point, loc.ec)
                     pointP == affine_multiply(12 * loc.r, pt.point, loc.ec)
                 IN  IF st # "SUCCESS"
                     THEN /\ ledger' = LedgerRun(ledger,
                                 Acq(<<"pointPprime", "rMul">>)
                                 \o Rel(<<"p", "q", "r", "rMul", "ec", "pointPprime">>))
                          /\ loc' = NoLocals
                          /\ Return("cryptid_setup", st)
                     ELSE /\ ledger' = LedgerRun(ledger,
                                 Acq(<<"pointPprime", "rMul", "pointP">>)
                                 \o Rel(<<"rMul", "pointPprime">>))
                          /\ loc' = [loc EXCEPT !.pointP = pointP]
                          /\ pc' = IF affine_isInfinity(pointP)
                                   THEN "setup_point" ELSE "setup_finish"
                          /\ UNCHANGED <<ret, calls>>
    /\ UNCHANGED ibeVars
    /\ UNCHANGED <<abeVars, moreVars>>

\* a cryptid_setup that leaves out mpz_add_ui(s, s, 2) of line 615
cryptid_setup_finish_noOffset ==
    /\ pc = "setup_finish"
    /\ \E v \in random_mpzInRange(loc.q - 2) :
         LET s == v
             st == affine_multiplyStatus(s, loc.pointP, loc.ec)
             pointPpublic == affine_multiply(s, loc.pointP, loc.ec)
             l1 == LedgerRun(ledger, Acq(<<"s", "qMinusTwo">>) \o Rel(<<"qMinusTwo">>))
         IN  IF st # "SUCCESS"
             THEN /\ ledger' = LedgerRun(l1, Rel(<<"p", "q", "s", "pointP", "ec">>))
                  /\ Return("cryptid_setup", st)
                  /\ UNCHANGED <<publicParameters, masterSecret>>
             ELSE /\ publicParameters' =
                        [ellipticCurve |-> loc.ec, q |-> loc.q, pointP |-> loc.pointP,
                         pointPpublic |-> pointPpublic,
                         hashFunction |-> hashFunction_initForSecurityLevel]
                  /\ masterSecret' = s
                  /\ ledger' = LedgerRun(l1, Acq(<<"pointPpublic">>)
                                   \o Out(<<"ec", "pointP", "pointPpublic">>)
                                   \o Rel(<<"p", "q", "s", "r">>))
                  /\ Return("cryptid_setup", "SUCCESS")
    /\ loc' = NoLocals
    /\ UNCHANGED <<tries, privateKey, ciphertext, plain, result, oracle, tampered>>
    /\ UNCHANGED <<abeVars, moreVars>>

\* lines 608-641
cryptid_setup_finish ==
    /\ pc = "setup_finish"
    /\ \E v \in random_mpzInRange(loc.q - 2) :
         LET s == v + 2
             st == affine_multiplyStatus(s, loc.pointP, loc.ec)
             pointPpublic == affine_multiply(s, loc.pointP, loc.ec)
             l1 == LedgerRun(ledger, Acq(<<"s", "qMinusTwo">>) \o Rel(<<"qMinusTwo">>))
         IN  IF st # "SUCCESS"
             THEN /\ ledger' = LedgerRun(l1, Rel(<<"p", "q", "s", "pointP", "ec">>))
                  /\ Return("cryptid_setup", st)
                  /\ UNCHANGED <<publicParameters, masterSecret>>
             ELSE /\ publicParameters' =
                        [ellipticCurve |-> loc.ec, q |-> loc.q, pointP |-> loc.pointP,
                         pointPpublic |-> pointPpublic,
                         hashFunction |-> hashFunction_initForSecurityLevel]
                  /\ masterSecret' = s
                  /\ ledger' = LedgerRun(l1, Acq(<<"pointPpublic">>)
                                   \o Out(<<"ec", "pointP", "pointPpublic">>)
                                   \o Rel(<<"p", "q", "s", "r">>))
                  /\ Return("cryptid_setup", "SUCCESS")
    /\ loc' = NoLocals
    /\ UNCHANGED <<tries, privateKey, ciphertext, plain, result, oracle, tampered>>
    /\ UNCHANGED <<abeVars, moreVars>>


(***************************************************************************)
(* Inputs of the IBE calls.                                                *)
(***************************************************************************)
Identities == {"a", "b"}

\* strlen
StrLen(id) == IF id = "" THEN 0 ELSE 1

\* octet strings of 1..MaxMsgLen octets; bit 8(k-1) is the low bit of octet k
Messages ==
    UNION {{[bytes |-> b, length |-> n] : b \in SUBSET {BitAtom(8 * (k - 1)) : k \in 1..n}} :
              n \in 1..MaxMsgLen}

\* randomBytes(rho, hashLen)
randomBytes(hashLen) == SUBSET {BitAtom(8 * (k - 1)) : k \in 1..hashLen}

HashIndex(id) == CASE id = "a" -> 1 [] id = "b" -> 2 [] id = "c" -> 3 [] OTHER -> 4

\* identities and attributes no candidate point of which leaves infinity
NoPointIds == {"x"}

\* a hashToPoint that maps every identity to one point
hashToPoint_constant(ec, p, q, id, idLength, hashFunction) ==
    [status |-> "SUCCESS", point |-> (p + 1) \div q]

\* hashToPoint: a point of order q, the cofactor (p + 1) / q times a point
\* that the identity determines
hashToPoint(ec, p, q, id, idLength, hashFunction) ==
    IF id \in NoPointIds
    THEN [status |-> "HashToPointFailed", point |-> 0]
    ELSE [status |-> "SUCCESS",
          point |-> affine_multiply((p + 1) \div q, HashIndex(id), ec)]

\* hashToRange(result, s, sLength, q, hashFunction): the values it can have,
\* given its values so far.  Ideal: distinct inputs have distinct values, none 0;
\* a fresh value is one of the lowest HashWidth of the range.
HashWidth == 2

hashToRange(s, sLength, q) ==
    IF \E e \in oracle : e.in = s
    THEN {e.out : e \in {x \in oracle : x.in = s}}
    ELSE {v \in 1..(q - 1) : v <= HashWidth} \ {e.out : e \in oracle}

validation_isAffinePointValid(pt, order) == pt \in 0..order

validation_isPublicParametersValid(pp) ==
    /\ IsPrime(pp.ellipticCurve.fieldOrder)
    /\ IsPrime(pp.q)
    /\ ~affine_isInfinity(pp.pointP)
    /\ ~affine_isInfinity(pp.pointPpublic)
    /\ validation_isAffinePointValid(pp.pointP, pp.ellipticCurve.fieldOrder)
    /\ validation_isAffinePointValid(pp.pointPpublic, pp.ellipticCurve.fieldOrder)
    /\ pp.hashFunction.hashLength > 0

validation_isCipherTextTupleValid(ct, order) ==
    /\ validation_isAffinePointValid(ct.cipherU, order)
    /\ ct.cipherVLength # 0
    /\ ct.cipherWLength # 0

cipherTextTuple_init(cipherU, cipherV, cipherVLength, cipherW, cipherWLength) ==
    [cipherU |-> cipherU, cipherV |-> cipherV, cipherVLength |-> cipherVLength,
     cipherW |-> cipherW, cipherWLength |-> cipherWLength]

(***************************************************************************)
(* cryptid_extract, lines 644-676.                                         *)
(***************************************************************************)
cryptid_extract ==
    /\ pc = "idle"
    /\ ciphertext = NoCipherText
    /\ \E identity \in Identities \cup {""}, resultGiven \in BOOLEAN :
         LET pp == publicParameters
             qId == hashToPoint(pp.ellipticCurve, pp.ellipticCurve.fieldOrder, pp.q,
                                identity, StrLen(identity), pp.hashFunction)
         IN  IF ~resultGiven
             THEN /\ Return("cryptid_extract", "RESULT_POINTER_NULL_ERROR")
                  /\ ledger' = EmptyLedger
                  /\ UNCHANGED privateKey
             ELSE IF StrLen(identity) = 0
             THEN /\ Return("cryptid_extract", "IDENTITY_LENGTH_ERROR")
                  /\ ledger' = EmptyLedger
                  /\ UNCHANGED privateKey
             ELSE IF ~validation_isPublicParametersValid(pp)
             THEN /\ Return("cryptid_extract", "ILLEGAL_PUBLIC_PARAMETERS_ERROR")
                  /\ ledger' = EmptyLedger
                  /\ UNCHANGED privateKey
             ELSE IF qId.status # "SUCCESS"
             THEN /\ Return("cryptid_extract", qId.status)
                  /\ ledger' = EmptyLedger
                  /\ UNCHANGED privateKey
             ELSE /\ privateKey' =
                        [id |-> identity,
                         point |-> affine_multiply(masterSecret, qId.point, pp.ellipticCurve)]
                  /\ ledger' = LedgerRun(EmptyLedger, Acq(<<"qId", "result">>)
                                         \o Out(<<"result">>) \o Rel(<<"qId">>))
                  /\ Return("cryptid_extract",
                            affine_multiplyStatus(masterSecret, qId.point, pp.ellipticCurve))
    /\ tries' = NoTries
    /\ UNCHANGED <<loc, publicParameters, masterSecret, ciphertext, plain, result, oracle,
                   tampered>>
    /\ UNCHANGED <<abeVars, moreVars>>


(***************************************************************************)
(* cryptid_encrypt, lines 678-798.                                         *)
(***************************************************************************)
\* the temporaries of cryptid_encrypt on each of its ways out
cryptid_encrypt_ledger(exit) ==
    CASE exit = "hashToPoint" -> Acq(<<"l">>) \o Rel(<<"l">>)
      [] exit = "multiply" ->
            Acq(<<"l", "pointQId", "rho", "t", "concat">>)
            \o Rel(<<"l", "pointQId", "rho", "t", "concat">>)
      [] exit = "pairing" ->
            Acq(<<"l", "pointQId", "rho", "t", "concat", "cipherPointU">>)
            \o Rel(<<"l", "pointQId", "rho", "t", "concat", "cipherPointU">>)
      [] exit = "success" ->
            Acq(<<"l", "pointQId", "rho", "t", "concat", "cipherPointU", "theta",
                  "thetaPrime", "z", "w", "cipherV", "cipherW", "hashedBytes", "result">>)
            \o Out(<<"result">>)
            \o Rel(<<"l", "pointQId", "cipherPointU", "theta", "thetaPrime", "rho",
                     "concat", "z", "cipherV", "cipherW", "hashedBytes">>)
      [] OTHER -> << >>

cryptid_encrypt ==
    /\ pc = "idle"
    /\ ciphertext = NoCipherText
    /\ privateKey # NoKey
    /\ \E message \in Messages \cup {NoBytes}, identity \in Identities \cup {""},
          given \in {"both", "noMessage", "noIdentity"} :
         LET pp == publicParameters
             ec == pp.ellipticCurve
             hashLen == pp.hashFunction.hashLength
             pointQId == hashToPoint(ec, ec.fieldOrder, pp.q, identity, StrLen(identity),
                                     pp.hashFunction)
             Fail(st, exit) ==
                 /\ Return("cryptid_encrypt", st)
                 /\ ledger' = LedgerRun(EmptyLedger, cryptid_encrypt_ledger(exit))
                 /\ UNCHANGED <<ciphertext, plain, oracle>>
         IN  IF given = "noMessage" THEN Fail("MESSAGE_NULL_ERROR", "early")
             ELSE IF message.length = 0 THEN Fail("MESSAGE_LENGTH_ERROR", "early")
             ELSE IF given = "noIdentity" THEN Fail("IDENTITY_NULL_ERROR", "early")
             ELSE IF StrLen(identity) = 0 THEN Fail("IDENTITY_LENGTH_ERROR", "early")
             ELSE IF ~validation_isPublicParametersValid(pp)
             THEN Fail("ILLEGAL_PUBLIC_PARAMETERS_ERROR", "early")
             ELSE IF pointQId.status # "SUCCESS" THEN Fail(pointQId.status, "hashToPoint")
             ELSE \E rho \in randomBytes(hashLen) :
                  LET t == sha_hash(message.bytes, message.length)
                      concat == Concat(rho, t)
                  IN  \E l \in hashToRange(concat, 2 * hashLen, pp.q) :
                      LET cipherPointU == affine_multiply(l, pp.pointP, ec)
                          stU == affine_multiplyStatus(l, pp.pointP, ec)
                          theta == tate_performPairing(2, ec, pp.q, pp.pointPpublic,
                                                       pointQId.point)
                          thetaPrime == complex_modPow(theta.value, l, ec.fieldOrder)
                          z == canonical(ec.fieldOrder, thetaPrime, 1)
                          w == sha_hash(z.bytes, z.length)
                          cipherV == Xor(w, rho)
                          hashedBytes == hashBytes(message.length, rho, hashLen)
                          cipherW == Xor(hashedBytes, message.bytes)
                      IN  /\ oracle' = oracle \cup {[in |-> concat, out |-> l]}
                          /\ IF stU # "SUCCESS"
                             THEN /\ Return("cryptid_encrypt", stU)
                                  /\ ledger' = LedgerRun(EmptyLedger,
                                                   cryptid_encrypt_ledger("multiply"))
                                  /\ UNCHANGED <<ciphertext, plain>>
                             ELSE IF theta.status # "SUCCESS"
                             THEN /\ Return("cryptid_encrypt", theta.status)
                                  /\ ledger' = LedgerRun(EmptyLedger,
                                                   cryptid_encrypt_ledger("pairing"))
                                  /\ UNCHANGED <<ciphertext, plain>>
                             ELSE /\ ciphertext' = cipherTextTuple_init(cipherPointU, cipherV,
                                                       hashLen, cipherW, message.length)
                                  /\ plain' = [message |-> message, identity |-> identity]
                                  /\ ledger' = LedgerRun(EmptyLedger,
                                                   cryptid_encrypt_ledger("success"))
                                  /\ Return("cryptid_encrypt", "SUCCESS")
    /\ tries' = NoTries
    /\ UNCHANGED <<loc, publicParameters, masterSecret, privateKey, result, tampered>>
    /\ UNCHANGED <<abeVars, moreVars>>

(***************************************************************************)
(* The ciphertext in transit: one bit of V or of W is flipped.             *)
(***************************************************************************)
\* the bits of each octet that the model flips
TamperWidth == 2

TamperBits(length) == {k \in 0..(8 * length - 1) : k % 8 < TamperWidth}

Tamper ==
    /\ pc = "idle"
    /\ ciphertext # NoCipherText
    /\ tampered = "none"
    /\ ret.call = "cryptid_encrypt"
    /\ \/ \E k \in TamperBits(ciphertext.cipherVLength) :
            /\ ciphertext' = [ciphertext EXCEPT !.cipherV = Xor(@, {BitAtom(k)})]
            /\ tampered' = "V"
       \/ \E k \in TamperBits(ciphertext.cipherWLength) :
            /\ ciphertext' = [ciphertext EXCEPT !.cipherW = Xor(@, {BitAtom(k)})]
            /\ tampered' = "W"
    /\ UNCHANGED <<ctlVars, publicParameters, masterSecret, privateKey, plain, result, oracle>>
    /\ UNCHANGED <<abeVars, moreVars>>


(***************************************************************************)
(* cryptid_decrypt, lines 800-890.                                         *)
(***************************************************************************)
cryptid_decrypt_ledger(exit) ==
    LET body == Acq(<<"l", "theta", "z", "w", "rho", "m", "hashedBytes", "t", "concat">>)
                \o Rel(<<"theta", "z", "rho", "hashedBytes", "concat">>)
    IN  CASE exit = "pairing" -> Acq(<<"l">>) \o Rel(<<"l">>)
          [] exit = "multiply" -> body \o Rel(<<"l">>)
          [] exit = "success" ->
                body \o Acq(<<"testPoint">>) \o Rel(<<"testPoint", "l">>) \o Out(<<"m">>)
          [] exit = "failed" -> body \o Acq(<<"testPoint">>) \o Rel(<<"testPoint", "l">>)
          [] OTHER -> << >>

\* a cryptid_decrypt that compares testPoint with itself, not with cipherU
cryptid_decrypt_unchecked ==
    /\ pc = "idle"
    /\ ret.call = "cryptid_encrypt"
    /\ LET pp == publicParameters
           ec == pp.ellipticCurve
           hashLen == pp.hashFunction.hashLength
           Fail(st, exit) ==
               /\ Return("cryptid_decrypt", st)
               /\ ledger' = LedgerRun(EmptyLedger, cryptid_decrypt_ledger(exit))
               /\ UNCHANGED <<result, oracle>>
       IN  IF ~validation_isPublicParametersValid(pp)
           THEN Fail("ILLEGAL_PUBLIC_PARAMETERS_ERROR", "early")
           ELSE IF ~validation_isAffinePointValid(privateKey.point, ec.fieldOrder)
           THEN Fail("ILLEGAL_PRIVATE_KEY_ERROR", "early")
           ELSE IF ~validation_isCipherTextTupleValid(ciphertext, ec.fieldOrder)
           THEN Fail("ILLEGAL_CIPHERTEXT_TUPLE_ERROR", "early")
           ELSE
           LET theta == tate_performPairing(2, ec, pp.q, ciphertext.cipherU, privateKey.point)
           IN  IF theta.status # "SUCCESS" THEN Fail(theta.status, "pairing")
               ELSE
               LET z == canonical(ec.fieldOrder, theta.value, 1)
                   w == sha_hash(z.bytes, z.length)
                   rho == Xor(w, ciphertext.cipherV)
                   hashedBytes == hashBytes(ciphertext.cipherWLength, rho, hashLen)
                   m == Xor(hashedBytes, ciphertext.cipherW)
                   t == sha_hash(m, ciphertext.cipherWLength)
                   concat == Concat(rho, t)
               IN  \E l \in hashToRange(concat, 2 * hashLen, pp.q) :
                   LET testPoint == affine_multiply(l, pp.pointP, ec)
                       st == affine_multiplyStatus(l, pp.pointP, ec)
                   IN  /\ oracle' = oracle \cup {[in |-> concat, out |-> l]}
                       /\ IF st # "SUCCESS"
                          THEN /\ Return("cryptid_decrypt", st)
                               /\ ledger' = LedgerRun(EmptyLedger,
                                                cryptid_decrypt_ledger("multiply"))
                               /\ UNCHANGED result
                          ELSE IF affine_isEquals(testPoint, testPoint)
                          THEN /\ result' = [written |-> TRUE, bytes |-> m,
                                             length |-> ciphertext.cipherWLength]
                               /\ ledger' = LedgerRun(EmptyLedger,
                                                cryptid_decrypt_ledger("success"))
                               /\ Return("cryptid_decrypt", "SUCCESS")
                          ELSE /\ ledger' = LedgerRun(EmptyLedger,
                                                cryptid_decrypt_ledger("failed"))
                               /\ Return("cryptid_decrypt", "DECRYPTION_FAILED_ERROR")
                               /\ UNCHANGED result
    /\ tries' = NoTries
    /\ UNCHANGED <<loc, publicParameters, masterSecret, privateKey, ciphertext, plain,
                   tampered>>
    /\ UNCHANGED <<abeVars, moreVars>>

cryptid_decrypt ==
    /\ pc = "idle"
    /\ ret.call = "cryptid_encrypt"
    /\ LET pp == publicParameters
           ec == pp.ellipticCurve
           hashLen == pp.hashFunction.hashLength
           Fail(st, exit) ==
               /\ Return("cryptid_decrypt", st)
               /\ ledger' = LedgerRun(EmptyLedger, cryptid_decrypt_ledger(exit))
               /\ UNCHANGED <<result, oracle>>
       IN  IF ~validation_isPublicParametersValid(pp)
           THEN Fail("ILLEGAL_PUBLIC_PARAMETERS_ERROR", "early")
           ELSE IF ~validation_isAffinePointValid(privateKey.point, ec.fieldOrder)
           THEN Fail("ILLEGAL_PRIVATE_KEY_ERROR", "early")
           ELSE IF ~validation_isCipherTextTupleValid(ciphertext, ec.fieldOrder)
           THEN Fail("ILLEGAL_CIPHERTEXT_TUPLE_ERROR", "early")
           ELSE
           LET theta == tate_performPairing(2, ec, pp.q, ciphertext.cipherU, privateKey.point)
           IN  IF theta.status # "SUCCESS" THEN Fail(theta.status, "pairing")
               ELSE
               LET z == canonical(ec.fieldOrder, theta.value, 1)
                   w == sha_hash(z.bytes, z.length)
                   rho == Xor(w, ciphertext.cipherV)
                   hashedBytes == hashBytes(ciphertext.cipherWLength, rho, hashLen)
                   m == Xor(hashedBytes, ciphertext.cipherW)
                   t == sha_hash(m, ciphertext.cipherWLength)
                   concat == Concat(rho, t)
               IN  \E l \in hashToRange(concat, 2 * hashLen, pp.q) :
                   LET testPoint == affine_multiply(l, pp.pointP, ec)
                       st == affine_multiplyStatus(l, pp.pointP, ec)
                   IN  /\ oracle' = oracle \cup {[in |-> concat, out |-> l]}
                       /\ IF st # "SUCCESS"
                          THEN /\ Return("cryptid_decrypt", st)
                               /\ ledger' = LedgerRun(EmptyLedger,
                                                cryptid_decrypt_ledger("multiply"))
                               /\ UNCHANGED result
                          ELSE IF affine_isEquals(ciphertext.cipherU, testPoint)
                          THEN /\ result' = [written |-> TRUE, bytes |-> m,
                                             length |-> ciphertext.cipherWLength]
                               /\ ledger' = LedgerRun(EmptyLedger,
                                                cryptid_decrypt_ledger("success"))
                               /\ Return("cryptid_decrypt", "SUCCESS")
                          ELSE /\ ledger' = LedgerRun(EmptyLedger,
                                                cryptid_decrypt_ledger("failed"))
                               /\ Return("cryptid_decrypt", "DECRYPTION_FAILED_ERROR")
                               /\ UNCHANGED result
    /\ tries' = NoTries
    /\ UNCHANGED <<loc, publicParameters, masterSecret, privateKey, ciphertext, plain,
                   tampered>>
    /\ UNCHANGED <<abeVars, moreVars>>

(***************************************************************************)
(* CP-ABE: the structures of the caller.                                   *)
(***************************************************************************)
\* children per AccessTree node and attributes per SecretKey_ABE
MAX_CHILDREN == 3
MAX_ATTRIBUTES == 3

ChildSlots == 0..(MAX_CHILDREN - 1)
AttributeSlots == 0..(MAX_ATTRIBUTES - 1)

\* structures the caller has declared and no call has filled in
NoPublicKey_ABE ==
    [ellipticCurve |-> NoCurve, g |-> 0, h |-> 0, f |-> 0, eggalpha |-> <<0, 0>>,
     hashFunction |-> [hashLength |-> 0], q |-> 0]

NoMasterKey_ABE == [beta |-> 0, g_alpha |-> 0, pubkey |-> "unset"]

NoSecretKey_ABE ==
    [D |-> 0, Dj |-> [i \in AttributeSlots |-> 0], DjA |-> [i \in AttributeSlots |-> 0],
     attributes |-> [i \in AttributeSlots |-> ""], pubkey |-> "unset"]

NoEncrypted == [tree |-> "unset", Ctilde |-> <<0, 0>>, C |-> 0]
NoTree == << >>
NoInner == [nodeCalls |-> 0, pairings |-> 0, failed |-> {}]
NoPrinted == [written |-> FALSE, real |-> 0, imaginary |-> 0]
NoLagrange == [at |-> "none", xi |-> 0, S |-> << >>, x |-> 0, i |-> 0, result |-> 0,
               resultMpz |-> [wraps |-> 0, low |-> 0]]
NoneDone == [setup |-> "none", keygen |-> "none", encrypt |-> "none", decrypt |-> "none"]

\* An AccessTree is an arena: node 1 is the root, children[i] is a node
\* number or 0 for NULL.  Cy and CyA hold what the caller's allocation left
\* there until compute_tree stores a point.
TreeNode(k, attr, kids, junk) ==
    [value |-> k, attribute |-> attr, children |-> [i \in ChildSlots |-> kids[i + 1]],
     Cy |-> junk, CyA |-> junk]

LeafNode(attr, junk) == TreeNode(1, attr, <<0, 0, 0>>, junk)

\* what an AffinePoint nobody initialised can hold
UninitPoints == {0, 1}

\* what a Complex nobody initialised can hold
UninitComplex == {<<0, 0>>, <<1, 0>>}

\* the trees the caller builds: a leaf, 2-of-2 from slot 0 and from slot 1,
\* 2-of-3, and 2-of-2 with an attribute hashToPoint finds no point for
AccessTrees(junk) ==
    { << LeafNode("a", junk) >>,
      << TreeNode(2, "", <<2, 3, 0>>, junk), LeafNode("a", junk), LeafNode("b", junk) >>,
      << TreeNode(2, "", <<0, 2, 3>>, junk), LeafNode("a", junk), LeafNode("b", junk) >>,
      << TreeNode(2, "", <<2, 3, 4>>, junk), LeafNode("a", junk), LeafNode("b", junk),
         LeafNode("c", junk) >>,
      << TreeNode(2, "", <<0, 2, 3>>, junk), LeafNode("a", junk), LeafNode("x", junk) >> }

\* the attribute arrays the caller gives cryptid_keygen_ABE
AttributeLists ==
    { [i \in AttributeSlots |-> <<"a", "b", "c">>[i + 1]],
      [i \in AttributeSlots |-> <<"a", "c", "">>[i + 1]],
      [i \in AttributeSlots |-> <<"a", "", "">>[i + 1]],
      [i \in AttributeSlots |-> <<"b", "", "c">>[i + 1]],
      [i \in AttributeSlots |-> <<"a", "x", "">>[i + 1]],
      [i \in AttributeSlots |-> ""] }

isLeaf(node) == \A i \in ChildSlots : node.children[i] = 0

\* a satisfyValue that accepts every key
satisfyValue_always(tree, n, attributes) == 1

\* satisfyValue(tree, attributes): 1 when the attributes satisfy the node
RECURSIVE satisfyValue(_, _, _)
satisfyValue(tree, n, attributes) ==
    LET node == tree[n]
        kids == {i \in ChildSlots : node.children[i] # 0}
    IN  IF isLeaf(node)
        THEN IF \E j \in AttributeSlots : attributes[j] = node.attribute THEN 1 ELSE 0
        ELSE IF Cardinality({i \in kids :
                     satisfyValue(tree, node.children[i], attributes) = 1}) >= node.value
             THEN 1 ELSE 0

\* ABE_randomNumber(r, publickey)
ABE_randomNumber(pk) == random_mpzInRange(pk.ellipticCurve.fieldOrder - 1)

\* createPolynom(d, s, publickey): degree d, value s at 0, the other
\* coefficients random (coef)
createPolynom(d, s, coef) == [i \in 0..d |-> IF i = 0 THEN s ELSE coef[i]]

\* polynomSum(q, x, sum): the value of q at x
polynomSum(q, d, x) ==
    LET horner[i \in 0..d] == IF i = d THEN q[d] ELSE q[i] + x * horner[i + 1]
    IN  horner[0]

\* the value of octet k of a message
OctetValue(bytes, k) ==
    LET val[b \in 0..8] ==
            IF b = 8 THEN 0
            ELSE (IF BitAtom(8 * (k - 1) + b) \in bytes THEN 2 ^ b ELSE 0) + val[b + 1]
    IN  val[0]

\* the messages given to cryptid_encrypt_ABE: those of Messages and "@", one
\* octet whose value 64 is not below the field order
Messages_ABE == Messages \cup {[bytes |-> {BitAtom(6)}, length |-> 1]}

\* values[i] = (long) message[i], lines 232-236: one word per octet
messageValues(message) == [k \in 1..message.length |-> OctetValue(message.bytes, k)]

\* mpz_import(M, messageLength, 1, sizeof(unsigned long), 0, 0, values) with
\* values[i] = (long) message[i]: one 64-bit word per octet, most significant
\* first; the value is kept modulo p, which is all that line 251 uses of it
messageToMpz(message, p) ==
    LET word == ModPow(2, 64, p)
        acc[k \in 0..message.length] ==
            IF k = 0 THEN 0
            ELSE (acc[k - 1] * word + OctetValue(message.bytes, k)) % p
    IN  acc[message.length]

(***************************************************************************)
(* compute_tree, lines 152-204.  The result is the annotated tree, the     *)
(* status returned for node n, and the statuses that the calls for n and   *)
(* its descendants returned other than success.                            *)
(***************************************************************************)
RECURSIVE compute_tree(_, _, _, _, _)
compute_tree(tree, n, s, pk, coef) ==
    LET node == tree[n]
        d == node.value - 1
        q == createPolynom(d, s, coef)
        ec == pk.ellipticCurve
    IN  IF ~isLeaf(node)
        THEN \* for (i = 1; i < MAX_CHILDREN; i++): the status of line 168 is dropped
             LET visit[i \in ChildSlots] ==
                     IF i = 0 THEN [tree |-> tree, failed |-> {}]
                     ELSE IF node.children[i] = 0 THEN visit[i - 1]
                     ELSE LET sub == compute_tree(visit[i - 1].tree, node.children[i],
                                                  polynomSum(q, d, i), pk, coef)
                          IN  [tree |-> sub.tree,
                               failed |-> visit[i - 1].failed \cup sub.failed]
                 last == visit[MAX_CHILDREN - 1]
             IN  [tree |-> last.tree, status |-> "CRYPTID_SUCCESS", failed |-> last.failed]
        ELSE LET stCy == affine_multiplyStatus(s, pk.g, ec)
                 Cy == affine_multiply(s, pk.g, ec)
                 hashedPoint == hashToPoint(ec, ec.fieldOrder, pk.q, node.attribute,
                                            StrLen(node.attribute), pk.hashFunction)
                 stCyA == affine_multiplyStatus(s, hashedPoint.point, ec)
                 CyA == affine_multiply(s, hashedPoint.point, ec)
             IN  IF stCy # "SUCCESS"
                 THEN [tree |-> tree, status |-> stCy, failed |-> {stCy}]
                 ELSE IF hashedPoint.status # "SUCCESS"
                 THEN [tree |-> tree, status |-> hashedPoint.status,
                       failed |-> {hashedPoint.status}]
                 ELSE IF stCyA # "SUCCESS"
                 THEN [tree |-> tree, status |-> stCyA, failed |-> {stCyA}]
                 ELSE [tree |-> [tree EXCEPT ![n].Cy = Cy, ![n].CyA = CyA],
                       status |-> "CRYPTID_SUCCESS", failed |-> {}]

(***************************************************************************)
(* DecryptNode_ABE, lines 375-468.  The result tells the status returned,  *)
(* *statusCode, whether *result was written and with what, how many node   *)
(* calls and pairings were made, the statuses other than success that the  *)
(* calls returned, and whether the call read objects that no longer exist  *)
(* or were never initialised (lines 432-457).                              *)
(***************************************************************************)
RECURSIVE DecryptNode_ABE(_, _, _, _)
DecryptNode_ABE(tree, n, sk, pk) ==
    LET node == tree[n]
        ec == pk.ellipticCurve
        p == ec.fieldOrder
        Leaf(st, code, written, value, pairings) ==
            [status |-> st, code |-> code, written |-> written, value |-> value,
             nodeCalls |-> 1, pairings |-> pairings,
             failed |-> IF st = "CRYPTID_SUCCESS" THEN {} ELSE {st}, undefined |-> FALSE]
    IN  IF isLeaf(node)
        THEN LET matches == {i \in AttributeSlots :
                                sk.attributes[i] # "" /\ sk.attributes[i] = node.attribute}
             IN  IF matches = {} THEN Leaf("CRYPTID_SUCCESS", 0, FALSE, <<0, 0>>, 0)
                 ELSE
                 LET found == CHOOSE i \in matches : \A j \in matches : i <= j
                     pairValue == tate_performPairing(2, ec, pk.q, sk.Dj[found], node.Cy)
                     pairValueA == tate_performPairing(2, ec, pk.q, sk.DjA[found], node.CyA)
                     pairValueA_inverse == complex_multiplicativeInverse(pairValueA.value, p)
                 IN  IF pairValue.status # "SUCCESS"
                     THEN Leaf(pairValue.status, 0, FALSE, <<0, 0>>, 1)
                     ELSE IF pairValueA.status # "SUCCESS"
                     THEN Leaf(pairValueA.status, 0, FALSE, <<0, 0>>, 2)
                     ELSE IF pairValueA_inverse.status # "SUCCESS"
                     THEN Leaf(pairValueA_inverse.status, 0, FALSE, <<0, 0>>, 2)
                     ELSE Leaf("CRYPTID_SUCCESS", 1, TRUE,
                               complex_modMul(pairValue.value, pairValueA_inverse.value, p), 2)
        ELSE \* the status of line 429 is dropped; Fx is stored in the local
             \* pointer result (line 462), never in *result
             LET sub == [i \in ChildSlots |->
                            IF node.children[i] = 0
                            THEN [code |-> 0, nodeCalls |-> 0, pairings |-> 0, failed |-> {},
                                  undefined |-> FALSE]
                            ELSE DecryptNode_ABE(tree, node.children[i], sk, pk)]
                 total[i \in 0..MAX_CHILDREN] ==
                     IF i = 0 THEN [nodeCalls |-> 1, pairings |-> 0]
                     ELSE [nodeCalls |-> total[i - 1].nodeCalls + sub[i - 1].nodeCalls,
                           pairings |-> total[i - 1].pairings + sub[i - 1].pairings]
                 num == Cardinality({i \in ChildSlots : sub[i].code = 1})
             IN  [status |-> "CRYPTID_SUCCESS", code |-> IF num > 0 THEN 1 ELSE 0,
                  written |-> FALSE, value |-> <<0, 0>>,
                  nodeCalls |-> total[MAX_CHILDREN].nodeCalls,
                  pairings |-> total[MAX_CHILDREN].pairings,
                  failed |-> UNION {sub[i].failed : i \in ChildSlots},
                  undefined |-> num > 0 \/ \E i \in ChildSlots : sub[i].undefined]

(***************************************************************************)
(* Lagrange_coefficient, lines 359-373, and the exponent that              *)
(* DecryptNode_ABE makes of its result, lines 454-456.                     *)
(***************************************************************************)
\* a / b of C for int operands: the quotient truncated toward zero
IntDivide(a, b) ==
    LET abs(v) == IF v < 0 THEN 0 - v ELSE v
        quotient == abs(a) \div abs(b)
    IN  IF (a < 0) = (b < 0) THEN quotient ELSE 0 - quotient

\* the result after the first sLength entries of S (S[1] is S[0] of the code)
Lagrange_coefficient(xi, S, sLength, x) ==
    LET product[i \in 0..sLength] ==
            IF i = 0 THEN 1
            ELSE IF S[i] # xi
                 THEN product[i - 1] * IntDivide(x - S[i], xi - S[i])
                 ELSE product[i - 1]
    IN  product[sLength]

\* mpz_init_set_ui(resultMpz, n) with an int argument: the int is
\* converted to unsigned long, a negative one to 2^64 + n; the value
\* is wraps * 2^64 + low
mpz_init_set_ui(n) == [wraps |-> IF n < 0 THEN 1 ELSE 0, low |-> n]

\* the arrays of child indices, in increasing order as lines 442-449 fill
\* them: the slots 0..MAX_CHILDREN-1 of the code, the indices
\* 1..MAX_CHILDREN of a 1-based numbering
IndexArrays ==
    {S \in UNION {[1..k -> 0..MAX_CHILDREN] : k \in 1..MAX_CHILDREN} :
        \A a, b \in DOMAIN S : a < b => S[a] < S[b]}

\* the calls Lagrange_coefficient(xi, S, sLength, 0) with xi one of S
LagrangeCalls ==
    UNION {{[at |-> "loop", xi |-> S[k], S |-> S, x |-> 0, i |-> 0, result |-> 1,
             resultMpz |-> [wraps |-> 0, low |-> 0]] : k \in DOMAIN S} : S \in IndexArrays}

\* lines 362-371: one iteration of the loop
Lagrange_coefficient_loop ==
    /\ lagrange.at = "loop"
    /\ lagrange.i < Len(lagrange.S)
    /\ lagrange' = [lagrange EXCEPT
                       !.i = @ + 1,
                       !.result = Lagrange_coefficient(lagrange.xi, lagrange.S,
                                                       lagrange.i + 1, lagrange.x)]
    /\ UNCHANGED <<ctlVars, ibeVars, abeVars, encrypted2>>

\* line 372 and lines 454-456: the result returned becomes the exponent
Lagrange_coefficient_return ==
    /\ lagrange.at = "loop"
    /\ lagrange.i = Len(lagrange.S)
    /\ lagrange' = [lagrange EXCEPT !.at = "exponent",
                                    !.resultMpz = mpz_init_set_ui(lagrange.result)]
    /\ UNCHANGED <<ctlVars, ibeVars, abeVars, encrypted2>>

(***************************************************************************)
(* cryptid_setup_ABE, lines 21-150, in steps as cryptid_setup.             *)
(***************************************************************************)
ReturnABE(op, call, st) ==
    /\ Return(call, st)
    /\ done' = [done EXCEPT ![op] = st]

\* lines 21-39
cryptid_setup_ABE_call ==
    /\ pc = "idle"
    /\ done.setup = "none"
    /\ \E sol \in random_solinasPrime(AttemptCap) :
         /\ tries' = [NoTries EXCEPT !.solinas = sol.attempts]
         /\ IF sol.status # "SUCCESS"
            THEN /\ ledger' = LedgerRun(EmptyLedger, Acq(<<"q">>) \o Rel(<<"q">>))
                 /\ loc' = NoLocals
                 /\ ReturnABE("setup", "cryptid_setup_ABE", sol.status)
            ELSE /\ ledger' = LedgerRun(EmptyLedger, Acq(<<"q", "r", "p">>))
                 /\ loc' = [NoLocals EXCEPT !.q = sol.q]
                 /\ pc' = "setup_ABE_prime"
                 /\ UNCHANGED <<ret, calls, done>>
    /\ UNCHANGED <<ibeVars, moreVars, publickey, masterkey, secretkey, accessTree, encrypted, abePlain,
                   resultABE, printed, inner>>

\* lines 40-53: one iteration of do { r; p = 12 r q - 1 } while (!prime)
cryptid_setup_ABE_primeLoop ==
    /\ pc = "setup_ABE_prime"
    /\ tries.prime < AttemptCap + LoopSlack
    /\ \E r \in random_mpzOfLength :
         LET p == 12 * r * loc.q - 1
         IN  /\ tries' = [tries EXCEPT !.prime = @ + 1]
             /\ IF validation_isProbablePrime(p)
                THEN /\ loc' = [loc EXCEPT !.r = r, !.p = p,
                                           !.ec = ellipticCurve_init(0, 1, p)]
                     /\ ledger' = LedgerRun(ledger, Acq(<<"zero", "one", "ec">>))
                     /\ pc' = "setup_ABE_point"
                ELSE /\ loc' = [loc EXCEPT !.r = r, !.p = p]
                     /\ UNCHANGED <<ledger, pc>>
    /\ UNCHANGED <<ret, calls, ibeVars, moreVars, abeVars>>

\* lines 57-87: one iteration of do { P' random; P = 12 r P' } while (P = infinity)
cryptid_setup_ABE_pointLoop ==
    /\ pc = "setup_ABE_point"
    /\ tries.pointLoop < AttemptCap + LoopSlack
    /\ \E pt \in random_affinePoint(loc.ec, loc.q, AttemptCap) :
         /\ tries' = [tries EXCEPT !.point = pt.attempts, !.pointLoop = @ + 1]
         /\ IF pt.status # "SUCCESS"
            THEN /\ ledger' = LedgerRun(ledger, Rel(<<"p", "q", "r", "ec">>))
                 /\ loc' = NoLocals
                 /\ ReturnABE("setup", "cryptid_setup_ABE", pt.status)
            ELSE LET st == affine_multiplyStatus(12 * loc.r, pt.point, loc.ec)
                     pointP == affine_multiply(12 * loc.r, pt.point, loc.ec)
                 IN  IF st # "SUCCESS"
                     THEN /\ ledger' = LedgerRun(ledger,
                                 Acq(<<"pointPprime", "rMul">>)
                                 \o Rel(<<"p", "q", "r", "rMul", "ec", "pointPprime">>))
                          /\ loc' = NoLocals
                          /\ ReturnABE("setup", "cryptid_setup_ABE", st)
                     ELSE /\ ledger' = LedgerRun(ledger,
                                 Acq(<<"pointPprime", "rMul", "pointP">>)
                                 \o Rel(<<"rMul", "pointPprime">>))
                          /\ loc' = [loc EXCEPT !.pointP = pointP]
                          /\ pc' = IF affine_isInfinity(pointP)
                                   THEN "setup_ABE_point" ELSE "setup_ABE_finish"
                          /\ UNCHANGED <<ret, calls, done>>
    /\ UNCHANGED <<ibeVars, moreVars, publickey, masterkey, secretkey, accessTree, encrypted, abePlain,
                   resultABE, printed, inner>>

\* lines 89-149
cryptid_setup_ABE_finish ==
    /\ pc = "setup_ABE_finish"
    /\ \E alpha \in random_mpzInRange(loc.p - 1), beta \in random_mpzInRange(loc.p - 1) :
         LET ec == loc.ec
             g == loc.pointP
             pk1 == [publickey EXCEPT !.ellipticCurve = ec, !.g = g]
             stH == affine_multiplyStatus(beta, g, ec)
             pk2 == [pk1 EXCEPT !.h = affine_multiply(beta, g, ec)]
             \* mpz_invert leaves beta_inverse as mpz_init made it, 0, when
             \* beta has no inverse
             beta_inverse == ModInverse(beta, ec.fieldOrder)
             stF == affine_multiplyStatus(beta_inverse, g, ec)
             pk3 == [pk2 EXCEPT !.f = affine_multiply(beta_inverse, g, ec)]
             mk1 == [masterkey EXCEPT !.beta = beta]
             stA == affine_multiplyStatus(alpha, g, ec)
             mk2 == [mk1 EXCEPT !.g_alpha = affine_multiply(alpha, g, ec)]
             pk4 == [pk3 EXCEPT !.q = loc.q,
                                !.hashFunction = hashFunction_initForSecurityLevel]
             pairValue == tate_performPairing(2, ec, loc.q, g, g)
             eggalpha == complex_modPow(pairValue.value, alpha, ec.fieldOrder)
             l1 == LedgerRun(ledger, Acq(<<"pMinusOne", "alpha", "beta">>)
                                     \o Out(<<"ec", "pointP">>))
             l2 == LedgerRun(l1, Acq(<<"h">>) \o Out(<<"h">>) \o Acq(<<"beta_inverse">>))
             l3 == LedgerRun(l2, Acq(<<"f", "masterkey_beta">>)
                                 \o Out(<<"f", "masterkey_beta">>))
             l4 == LedgerRun(l3, Acq(<<"g_alpha", "publickey_q">>)
                                 \o Out(<<"g_alpha", "publickey_q">>))
             Leave(st, pk, mk, l) ==
                 /\ publickey' = pk
                 /\ masterkey' = mk
                 /\ ledger' = l
                 /\ ReturnABE("setup", "cryptid_setup_ABE", st)
         IN  IF stH # "SUCCESS" THEN Leave(stH, pk1, masterkey, l1)
             ELSE IF stF # "SUCCESS" THEN Leave(stF, pk2, masterkey, l2)
             ELSE IF stA # "SUCCESS" THEN Leave(stA, pk3, mk1, l3)
             ELSE IF pairValue.status # "SUCCESS"
             THEN Leave(pairValue.status, pk4, mk2, l4)
             ELSE Leave("CRYPTID_SUCCESS", [pk4 EXCEPT !.eggalpha = eggalpha],
                        [mk2 EXCEPT !.pubkey = "publickey"],
                        LedgerRun(l4, Acq(<<"pairValue", "eggalpha">>) \o Out(<<"eggalpha">>)
                                      \o Rel(<<"zero", "one", "p", "q", "r", "pMinusOne",
                                               "alpha", "beta", "beta_inverse">>)))
    /\ loc' = NoLocals
    /\ UNCHANGED <<tries, ibeVars, moreVars, secretkey, accessTree, encrypted, abePlain, resultABE,
                   printed, inner>>

(***************************************************************************)
(* cryptid_encrypt_ABE, lines 206-263.                                     *)
(***************************************************************************)
cryptid_encrypt_ABE ==
    /\ pc = "idle"
    /\ done.setup = "CRYPTID_SUCCESS"
    /\ done.encrypt = "none"
    /\ \E message \in Messages_ABE \cup {NoBytes},
          given \in {"all", "noMessage", "noPublickey", "noAccessTree"} :
         LET pk == publickey
             ec == pk.ellipticCurve
             Fail(st) ==
                 /\ ReturnABE("encrypt", "cryptid_encrypt_ABE", st)
                 /\ UNCHANGED <<accessTree, encrypted, abePlain, inner>>
         IN  IF given = "noMessage" THEN Fail("CRYPTID_MESSAGE_NULL_ERROR")
             ELSE IF message.length = 0 THEN Fail("CRYPTID_MESSAGE_LENGTH_ERROR")
             ELSE IF given = "noPublickey" THEN Fail("CRYPTID_MESSAGE_NULL_ERROR")
             ELSE IF given = "noAccessTree" THEN Fail("CRYPTID_MESSAGE_NULL_ERROR")
             ELSE \E tree \in UNION {AccessTrees(junk) : junk \in UninitPoints},
                     s \in random_mpzInRange(ec.fieldOrder - 1),
                     coef \in [1..(MAX_CHILDREN - 1) -> ABE_randomNumber(pk)] :
                  \* line 247: the status of compute_tree is dropped
                  \E computed \in {compute_tree(tree, 1, s, pk, coef)} :
                  LET M == messageToMpz(message, ec.fieldOrder)
                      eggalphas == complex_modPow(pk.eggalpha, s, ec.fieldOrder)
                      Ctilde == complex_modMulScalar(eggalphas, M, ec.fieldOrder)
                      stC == affine_multiplyStatus(s, pk.h, ec)
                      C == affine_multiply(s, pk.h, ec)
                  IN  /\ accessTree' = computed.tree
                      /\ abePlain' = message
                      /\ inner' = [nodeCalls |-> 0, pairings |-> 0,
                                   failed |-> computed.failed]
                      /\ IF stC # "SUCCESS"
                         THEN /\ encrypted' = [encrypted EXCEPT !.tree = "accessTree",
                                                                !.Ctilde = Ctilde]
                              /\ ReturnABE("encrypt", "cryptid_encrypt_ABE", stC)
                         ELSE /\ encrypted' = [tree |-> "accessTree", Ctilde |-> Ctilde,
                                               C |-> C]
                              /\ ReturnABE("encrypt", "cryptid_encrypt_ABE",
                                           "CRYPTID_SUCCESS")
    /\ tries' = NoTries
    /\ ledger' = EmptyLedger
    /\ UNCHANGED <<loc, ibeVars, moreVars, publickey, masterkey, secretkey, resultABE, printed>>

(***************************************************************************)
(* A second call of cryptid_encrypt_ABE, for another EncryptedMessage_ABE  *)
(* and with the AccessTree of the first call.  Line 249 stores the pointer *)
(* to the tree, so both ciphertexts then refer to the one tree that        *)
(* compute_tree (lines 198-199) annotates in place.                        *)
(***************************************************************************)
cryptid_encrypt_ABE_again ==
    /\ pc = "idle"
    /\ done.encrypt = "CRYPTID_SUCCESS"
    /\ encrypted2 = NoEncrypted
    /\ \E message \in Messages,
          s \in random_mpzInRange(publickey.ellipticCurve.fieldOrder - 1),
          coef \in [1..(MAX_CHILDREN - 1) -> ABE_randomNumber(publickey)] :
         \E computed \in {compute_tree(accessTree, 1, s, publickey, coef)} :
         LET pk == publickey
             ec == pk.ellipticCurve
             M == messageToMpz(message, ec.fieldOrder)
             eggalphas == complex_modPow(pk.eggalpha, s, ec.fieldOrder)
             Ctilde == complex_modMulScalar(eggalphas, M, ec.fieldOrder)
             stC == affine_multiplyStatus(s, pk.h, ec)
             C == affine_multiply(s, pk.h, ec)
         IN  /\ accessTree' = computed.tree
             /\ inner' = [nodeCalls |-> 0, pairings |-> 0, failed |-> computed.failed]
             /\ IF stC # "SUCCESS"
                THEN /\ encrypted2' = [encrypted2 EXCEPT !.tree = "accessTree",
                                                         !.Ctilde = Ctilde]
                     /\ Return("cryptid_encrypt_ABE", stC)
                ELSE /\ encrypted2' = [tree |-> "accessTree", Ctilde |-> Ctilde, C |-> C]
                     /\ Return("cryptid_encrypt_ABE", "CRYPTID_SUCCESS")
    /\ tries' = NoTries
    /\ ledger' = EmptyLedger
    /\ UNCHANGED <<loc, ibeVars, lagrange, publickey, masterkey, secretkey, encrypted,
                   abePlain, resultABE, printed, done>>

(***************************************************************************)
(* cryptid_keygen_ABE, lines 265-357.                                      *)
(***************************************************************************)
cryptid_keygen_ABE ==
    /\ pc = "idle"
    /\ done.setup = "CRYPTID_SUCCESS"
    /\ done.keygen = "none"
    /\ \E attributes \in AttributeLists, r \in ABE_randomNumber(publickey),
          rj \in [AttributeSlots -> ABE_randomNumber(publickey)] :
         LET pk == publickey
             ec == pk.ellipticCurve
             stGr == affine_multiplyStatus(r, pk.g, ec)
             Gr == affine_multiply(r, pk.g, ec)
             stGar == affine_multiplyStatus(r, masterkey.g_alpha, ec)
             Gar == affine_multiply(r, masterkey.g_alpha, ec)
             beta_inverse == ModInverse(masterkey.beta, ec.fieldOrder)
             stGarBi == affine_multiplyStatus(beta_inverse, Gar, ec)
             GarBi == affine_multiply(beta_inverse, Gar, ec)
             Hj(i) == hashToPoint(ec, ec.fieldOrder, pk.q, attributes[i],
                                  StrLen(attributes[i]), pk.hashFunction)
             \* the iterations of the loop of line 301 that return early
             failing == {i \in AttributeSlots :
                            attributes[i] # "" /\ Hj(i).status # "SUCCESS"}
             first == IF failing = {} THEN MAX_ATTRIBUTES
                      ELSE CHOOSE i \in failing : \A j \in failing : i <= j
         IN  \E stored \in {{i \in AttributeSlots : i < first /\ attributes[i] # ""}} :
             IF stGr # "SUCCESS"
             THEN /\ ReturnABE("keygen", "cryptid_keygen_ABE", stGr)
                  /\ UNCHANGED secretkey
             ELSE IF stGar # "SUCCESS"
             THEN /\ ReturnABE("keygen", "cryptid_keygen_ABE", stGar)
                  /\ UNCHANGED secretkey
             ELSE IF stGarBi # "SUCCESS"
             THEN /\ ReturnABE("keygen", "cryptid_keygen_ABE", stGarBi)
                  /\ UNCHANGED secretkey
             ELSE /\ secretkey' =
                        [D |-> GarBi,
                         Dj |-> [i \in AttributeSlots |->
                                    IF i \in stored
                                    THEN affine_add(affine_multiply(rj[i], Hj(i).point, ec),
                                                    Gr, ec)
                                    ELSE secretkey.Dj[i]],
                         DjA |-> [i \in AttributeSlots |->
                                    IF i \in stored THEN affine_multiply(rj[i], pk.g, ec)
                                    ELSE secretkey.DjA[i]],
                         attributes |-> [i \in AttributeSlots |->
                                    IF i \in stored THEN attributes[i]
                                    ELSE secretkey.attributes[i]],
                         pubkey |-> IF stored # {} THEN masterkey.pubkey
                                    ELSE secretkey.pubkey]
                  /\ ReturnABE("keygen", "cryptid_keygen_ABE",
                               IF failing = {} THEN "CRYPTID_SUCCESS"
                               ELSE Hj(first).status)
    /\ tries' = NoTries
    /\ ledger' = EmptyLedger
    /\ UNCHANGED <<loc, ibeVars, moreVars, publickey, masterkey, accessTree, encrypted, abePlain,
                   resultABE, printed, inner>>

(***************************************************************************)
(* cryptid_decrypt_ABE, lines 470-516.                                     *)
(***************************************************************************)
cryptid_decrypt_ABE ==
    /\ pc = "idle"
    /\ done.encrypt = "CRYPTID_SUCCESS"
    /\ done.keygen = "CRYPTID_SUCCESS"
    /\ done.decrypt = "none"
    /\ IF satisfyValue(accessTree, 1, secretkey.attributes) = 0
       THEN /\ ReturnABE("decrypt", "cryptid_decrypt_ABE",
                         "CRYPTID_ILLEGAL_PRIVATE_KEY_ERROR")
            /\ inner' = NoInner
            /\ UNCHANGED printed
       ELSE \* line 479: the status of DecryptNode_ABE is dropped; a call that
            \* read dead or uninitialised objects may not return
            \E node \in {DecryptNode_ABE(accessTree, 1, secretkey, publickey)} :
            \E aborted \in IF node.undefined THEN BOOLEAN ELSE {FALSE},
               A \in IF node.written THEN {node.value} ELSE UninitComplex :
              LET pk == publickey
                  ec == pk.ellipticCurve
                  p == ec.fieldOrder
                  Leave(st, pairings) ==
                      /\ ReturnABE("decrypt", "cryptid_decrypt_ABE", st)
                      /\ inner' = [nodeCalls |-> node.nodeCalls,
                                   pairings |-> node.pairings + pairings,
                                   failed |-> node.failed]
              IN  IF aborted THEN Leave("Aborted", 0) /\ UNCHANGED printed
                  ELSE IF node.code = 0
                  THEN Leave("CRYPTID_ILLEGAL_PRIVATE_KEY_ERROR", 0) /\ UNCHANGED printed
                  ELSE
                  \E eCD \in {tate_performPairing(2, ec, pk.q, encrypted.C, secretkey.D)} :
                  LET Ctilde_A == complex_modMul(encrypted.Ctilde, A, p)
                      eCD_inverse == complex_multiplicativeInverse(eCD.value, p)
                      decrypted == complex_modMul(Ctilde_A, eCD_inverse.value, p)
                  IN  IF eCD.status # "SUCCESS"
                      THEN Leave(eCD.status, 1) /\ UNCHANGED printed
                      ELSE IF eCD_inverse.status # "SUCCESS"
                      THEN Leave(eCD_inverse.status, 1) /\ UNCHANGED printed
                      ELSE /\ Leave("CRYPTID_SUCCESS", 1)
                           /\ printed' = [written |-> TRUE, real |-> decrypted[1],
                                          imaginary |-> decrypted[2]]
    /\ tries' = NoTries
    /\ ledger' = EmptyLedger
    /\ UNCHANGED <<loc, ibeVars, moreVars, publickey, masterkey, secretkey, accessTree, encrypted,
                   abePlain, resultABE>>

(***************************************************************************)
(* Specifications.                                                         *)
(***************************************************************************)
\* the caller's structures before the first call
InitCaller ==
    /\ pc = "idle"
    /\ loc = NoLocals
    /\ tries = NoTries
    /\ ret = [call |-> "none", status |-> "none"]
    /\ calls = 0
    /\ ledger = EmptyLedger
    /\ publicParameters = NoPublicParameters
    /\ masterSecret = 0
    /\ privateKey = NoKey
    /\ ciphertext = NoCipherText
    /\ plain = NoPlain
    /\ result = NoResult
    /\ oracle = {}
    /\ tampered = "none"
    /\ publickey = NoPublicKey_ABE
    /\ masterkey = NoMasterKey_ABE
    /\ secretkey = NoSecretKey_ABE
    /\ accessTree = NoTree
    /\ encrypted = NoEncrypted
    /\ abePlain = NoBytes
    /\ resultABE = NoResult
    /\ printed = NoPrinted
    /\ inner = NoInner
    /\ done = NoneDone
    /\ encrypted2 = NoEncrypted

Init ==
    /\ InitCaller
    /\ lagrange = NoLagrange

NextIBE ==
    \/ cryptid_setup_call
    \/ cryptid_setup_primeLoop
    \/ cryptid_setup_pointLoop
    \/ cryptid_setup_finish
    \/ cryptid_extract
    \/ cryptid_encrypt
    \/ Tamper
    \/ cryptid_decrypt

SpecIBE == Init /\ [][NextIBE]_vars

NextABE ==
    \/ cryptid_setup_ABE_call
    \/ cryptid_setup_ABE_primeLoop
    \/ cryptid_setup_ABE_pointLoop
    \/ cryptid_setup_ABE_finish
    \/ cryptid_keygen_ABE
    \/ cryptid_encrypt_ABE
    \/ cryptid_decrypt_ABE

SpecABE == Init /\ [][NextABE]_vars

\* the ABE calls, cryptid_encrypt_ABE called twice with one AccessTree
NextABE2 ==
    \/ NextABE
    \/ cryptid_encrypt_ABE_again

SpecABE2 == Init /\ [][NextABE2]_vars

\* Lagrange_coefficient on its own, for each of LagrangeCalls
InitLagrange ==
    /\ InitCaller
    /\ lagrange \in LagrangeCalls

NextLagrange ==
    \/ Lagrange_coefficient_loop
    \/ Lagrange_coefficient_return

SpecLagrange == InitLagrange /\ [][NextLagrange]_vars

(***************************************************************************)
(* Properties of the IBE calls.                                            *)
(***************************************************************************)
\* cryptid_decrypt has returned, having been given the ciphertext that
\* cryptid_encrypt made of plain.message for plain.identity
Decrypted == ret.call = "cryptid_decrypt" /\ plain # NoPlain

C2_WrongIdentity ==
    (Decrypted /\ tampered = "none" /\ privateKey.id # plain.identity)
        => ret.status = "DECRYPTION_FAILED_ERROR" /\ ~result.written

C2_Witness ==
    /\ Decrypted /\ tampered = "none"
    /\ privateKey.id = "b" /\ plain.identity = "a"
    /\ ret.status = "DECRYPTION_FAILED_ERROR"

\* C3: with one bit of V or of W flipped, U and the key of the right
\* identity unchanged, cryptid_decrypt returns DECRYPTION_FAILED_ERROR and
\* stores no plaintext.
C3_TamperReject ==
    (Decrypted /\ tampered \in {"V", "W"} /\ privateKey.id = plain.identity)
        => ret.status = "DECRYPTION_FAILED_ERROR" /\ ~result.written

C3_Witness ==
    /\ Decrypted /\ tampered = "W" /\ privateKey.id = plain.identity
    /\ ret.status = "DECRYPTION_FAILED_ERROR"


(***************************************************************************)
(* Properties of the CP-ABE calls.                                         *)
(***************************************************************************)
DecryptedABE == pc = "idle" /\ ret.call = "cryptid_decrypt_ABE"

Leaves(tree) == {n \in DOMAIN tree : isLeaf(tree[n])}

HeldAttributes(sk) == {sk.attributes[i] : i \in AttributeSlots} \ {""}

\* the message as the element of F_p^2 that cryptid_encrypt_ABE multiplies
\* into Ctilde
MessageValue == <<messageToMpz(abePlain, publickey.ellipticCurve.fieldOrder), 0>>

\* the children of the root whose attribute the key holds
HeldChildren ==
    {i \in ChildSlots :
        /\ accessTree[1].children[i] # 0
        /\ accessTree[accessTree[1].children[i]].attribute \in HeldAttributes(secretkey)}

\* a hashing, pairing or inversion call of the decryption returned an error
LibraryFailed ==
    inner.failed # {} \/ ret.status \in {"PairingDegenerate", "InverseNonInvertible"}

\* the root is an AND gate: an internal node whose threshold is the number of
\* its children
AndTree ==
    /\ ~isLeaf(accessTree[1])
    /\ accessTree[1].value = Cardinality({i \in ChildSlots : accessTree[1].children[i] # 0})

\* C4: for an AND tree and a key that holds every leaf attribute of it,
\* cryptid_decrypt_ABE returns success and the caller's result holds the
\* octets of the message given to cryptid_encrypt_ABE (here: whenever no
\* hashing, pairing or inversion call failed on the way).
C4_RoundTripABE ==
    (/\ DecryptedABE
     /\ AndTree
     /\ \A n \in Leaves(accessTree) : accessTree[n].attribute \in HeldAttributes(secretkey)
     /\ ~LibraryFailed)
        => /\ ret.status = "CRYPTID_SUCCESS"
           /\ resultABE.written
           /\ resultABE.bytes = abePlain.bytes

\* C5: for a (k, n) root, a key holding k or more of the child attributes,
\* the first child among them or not, decrypts successfully to the message
\* (here: whenever no hashing, pairing or inversion call failed on the way),
\* and a key holding fewer makes decryption fail.  The decrypted value is
\* taken to be the one cryptid_decrypt_ABE computes and prints.
C5_Threshold ==
    (DecryptedABE /\ ~isLeaf(accessTree[1]))
        => IF Cardinality(HeldChildren) >= accessTree[1].value
           THEN ~LibraryFailed
                   => /\ ret.status = "CRYPTID_SUCCESS"
                      /\ printed.written
                      /\ <<printed.real, printed.imaginary>> = MessageValue
           ELSE ret.status # "CRYPTID_SUCCESS"

\* satisfaction as the claim defines it: a leaf by its attribute, an
\* internal node by at least value of its children
RECURSIVE Satisfied(_, _, _)
Satisfied(tree, n, held) ==
    IF isLeaf(tree[n]) THEN tree[n].attribute \in held
    ELSE Cardinality({i \in ChildSlots :
                         /\ tree[n].children[i] # 0
                         /\ Satisfied(tree, tree[n].children[i], held)}) >= tree[n].value

\* C6: when the attributes of the key do not satisfy the tree,
\* cryptid_decrypt_ABE returns CRYPTID_ILLEGAL_PRIVATE_KEY_ERROR without
\* having decrypted a node or computed a pairing.
C6_Unsatisfied ==
    (DecryptedABE /\ ~Satisfied(accessTree, 1, HeldAttributes(secretkey)))
        => /\ ret.status = "CRYPTID_ILLEGAL_PRIVATE_KEY_ERROR"
           /\ inner.nodeCalls = 0
           /\ inner.pairings = 0

C6_Witness ==
    /\ DecryptedABE
    /\ accessTree[1].value = 2
    /\ HeldAttributes(secretkey) = {"a"}
    /\ ~Satisfied(accessTree, 1, HeldAttributes(secretkey))
    /\ ret.status = "CRYPTID_ILLEGAL_PRIVATE_KEY_ERROR"

\* C7: a call of cryptid_setup_ABE, cryptid_encrypt_ABE or
\* cryptid_keygen_ABE that returns a status other than success leaves the
\* public key, the master key, the encrypted message and the secret key as
\* they were before the call.
C7_NoHalfOutput ==
    [][(/\ calls' # calls
        /\ ret'.call \in {"cryptid_setup_ABE", "cryptid_encrypt_ABE", "cryptid_keygen_ABE"}
        /\ ret'.status # "CRYPTID_SUCCESS")
          => /\ publickey' = publickey
             /\ masterkey' = masterkey
             /\ encrypted' = encrypted
             /\ secretkey' = secretkey]_vars

(***************************************************************************)
(* Properties of the resources, the retries and the errors of the calls.   *)
(***************************************************************************)
\* C8: when cryptid_setup, cryptid_encrypt, cryptid_decrypt or
\* cryptid_setup_ABE has returned, every temporary it acquired and did not
\* hand to the caller has been released once: none is still held, none was
\* lost by overwriting, none was released twice.
C8_ResourcesReleased ==
    (pc = "idle" /\ ret.call \in {"cryptid_setup", "cryptid_encrypt", "cryptid_decrypt",
                                  "cryptid_setup_ABE"})
        => ledger = EmptyLedger

\* C9: no loop of a setup call makes more attempts than the capped loops of
\* the library allow.
C9_BoundedRetries ==
    /\ tries.solinas <= AttemptCap
    /\ tries.point <= AttemptCap
    /\ tries.prime <= AttemptCap
    /\ tries.pointLoop <= AttemptCap

\* C10: when a compute_tree or DecryptNode_ABE call below
\* cryptid_encrypt_ABE or cryptid_decrypt_ABE returned an error, the
\* operation returns one of those errors.
C10_ErrorsPropagate ==
    (pc = "idle" /\ ret.call \in {"cryptid_encrypt_ABE", "cryptid_decrypt_ABE"}
     /\ inner.failed # {})
        => ret.status \in inner.failed


(***************************************************************************)
(* Properties of the ABE ciphertext, keys and tree.                        *)
(***************************************************************************)
\* C11: once cryptid_encrypt_ABE has returned an EncryptedMessage_ABE, no
\* later call changes it: its Ctilde and C, and the tree it refers to with
\* the Cy and Cy' of every leaf, stay as that call left them, also when a
\* second cryptid_encrypt_ABE is given the same AccessTree.
C11_Immutable ==
    [][(done.encrypt = "CRYPTID_SUCCESS" /\ encrypted.tree = "accessTree")
          => (encrypted' = encrypted /\ accessTree' = accessTree)]_vars

(***************************************************************************)
(* Properties of the IBE consistency check and of the setup outputs.       *)
(***************************************************************************)
\* cryptid_decrypt has returned
ReturnedDecrypt == pc = "idle" /\ ret.call = "cryptid_decrypt"

\* the parameters, the key and the ciphertext pass the validations and the
\* pairing of U with the key exists
ValidDecryptInputs ==
    /\ validation_isPublicParametersValid(publicParameters)
    /\ validation_isAffinePointValid(privateKey.point,
                                     publicParameters.ellipticCurve.fieldOrder)
    /\ validation_isCipherTextTupleValid(ciphertext,
                                         publicParameters.ellipticCurve.fieldOrder)
    /\ tate_performPairing(2, publicParameters.ellipticCurve, publicParameters.q,
                           ciphertext.cipherU, privateKey.point).status = "SUCCESS"

\* rho = V xor H(canonical(e(U, key))) as the ciphertext and the key give it
RecoveredRho ==
    LET pp == publicParameters
        theta == tate_performPairing(2, pp.ellipticCurve, pp.q, ciphertext.cipherU,
                                     privateKey.point)
        z == canonical(pp.ellipticCurve.fieldOrder, theta.value, 1)
    IN  (sha_hash(z.bytes, z.length) \ ciphertext.cipherV)
        \cup (ciphertext.cipherV \ sha_hash(z.bytes, z.length))

\* M = W xor hashBytes(|W|, rho)
RecoveredM ==
    LET pad == hashBytes(ciphertext.cipherWLength, RecoveredRho,
                         publicParameters.hashFunction.hashLength)
    IN  (pad \ ciphertext.cipherW) \cup (ciphertext.cipherW \ pad)

\* U = l P for l = hashToRange(rho || H(M), q)
Consistent ==
    \E e \in oracle :
       /\ e.in = {[kind |-> "lo", n |-> 0, arg |-> RecoveredRho],
                  [kind |-> "hi", n |-> 0,
                   arg |-> sha_hash(RecoveredM, ciphertext.cipherWLength)]}
       /\ ciphertext.cipherU = (e.out * publicParameters.pointP)
                                   % (publicParameters.ellipticCurve.fieldOrder + 1)

\* C12: with valid parameters, key and ciphertext, cryptid_decrypt returns
\* SUCCESS and stores the recovered plaintext in *result exactly when
\* U = l P for the l recomputed from the recovered rho and M; otherwise it
\* returns DECRYPTION_FAILED_ERROR, or the error of a validation or of the
\* pairing, and leaves *result unwritten.
C12_ConsistencyCheck ==
    ReturnedDecrypt =>
        IF ValidDecryptInputs /\ Consistent
        THEN /\ ret.status = "SUCCESS"
             /\ result = [written |-> TRUE, bytes |-> RecoveredM,
                          length |-> ciphertext.cipherWLength]
        ELSE /\ ~result.written
             /\ IF ValidDecryptInputs THEN ret.status = "DECRYPTION_FAILED_ERROR"
                ELSE ret.status \in {"ILLEGAL_PUBLIC_PARAMETERS_ERROR",
                                     "ILLEGAL_PRIVATE_KEY_ERROR",
                                     "ILLEGAL_CIPHERTEXT_TUPLE_ERROR", "PairingDegenerate"}

\* a ciphertext whose U is not l P was refused and nothing was stored
C12_Witness ==
    /\ ReturnedDecrypt
    /\ ValidDecryptInputs
    /\ ~Consistent
    /\ ret.status = "DECRYPTION_FAILED_ERROR"
    /\ ~result.written

\* C13: whenever cryptid_setup has returned SUCCESS, the master secret s
\* satisfies 2 <= s < q, the generator P is not the point at infinity, q P
\* is the point at infinity, and P_pub = s P.
C13_SetupOutputs ==
    publicParameters # NoPublicParameters =>
        /\ 2 <= masterSecret
        /\ masterSecret < publicParameters.q
        /\ publicParameters.pointP # 0
        /\ (publicParameters.q * publicParameters.pointP)
               % (publicParameters.ellipticCurve.fieldOrder + 1) = 0
        /\ publicParameters.pointPpublic =
               (masterSecret * publicParameters.pointP)
                  % (publicParameters.ellipticCurve.fieldOrder + 1)

\* cryptid_setup has just returned SUCCESS with its outputs stored
C13_Witness ==
    /\ pc = "idle"
    /\ ret = [call |-> "cryptid_setup", status |-> "SUCCESS"]
    /\ publicParameters # NoPublicParameters
    /\ masterSecret = 3

(***************************************************************************)
(* Properties of the ABE keys.                                             *)
(***************************************************************************)
\* C14: cryptid_setup_ABE draws alpha and beta from [1, p), so the beta it
\* stores in the master key is never 0 and has an inverse modulo p, which
\* the inversions of setup and keygen then find.
C14_NonZeroDraws ==
    done.setup = "CRYPTID_SUCCESS" =>
        /\ masterkey.beta \in 1..(publickey.ellipticCurve.fieldOrder - 1)
        /\ \E x \in 1..(publickey.ellipticCurve.fieldOrder - 1) :
              (x * masterkey.beta) % publickey.ellipticCurve.fieldOrder = 1

\* C15: after a successful cryptid_setup_ABE, h = beta g, beta f = g (f is
\* g^(1/beta) in the group of order q that g generates), egg_alpha =
\* e(g, g)^alpha and g_alpha = alpha g for one alpha, and the master key
\* holds beta and refers to the public key.
C15_KeyRelations ==
    done.setup = "CRYPTID_SUCCESS" =>
        LET ec == publickey.ellipticCurve
            n == ec.fieldOrder + 1
            egg == tate_performPairing(2, ec, publickey.q, publickey.g, publickey.g)
        IN  /\ publickey.h = (masterkey.beta * publickey.g) % n
            /\ (masterkey.beta * publickey.f) % n = publickey.g
            /\ \E alpha \in 0..(publickey.q - 1) :
                  /\ masterkey.g_alpha = (alpha * publickey.g) % n
                  /\ publickey.eggalpha = complex_modPow(egg.value, alpha, ec.fieldOrder)
            /\ masterkey.pubkey = "publickey"

\* C16: after a successful cryptid_keygen_ABE (for a master key whose beta
\* and alpha g are not 0) there is one r with beta D = g_alpha + r g, that is
\* D = beta^-1 (alpha + r) g, and, for every attribute j of the key,
\* Dj = r g + rj H(attr_j) and Dj' = rj g for some rj.
C16_KeyComponents ==
    (done.keygen = "CRYPTID_SUCCESS" /\ masterkey.beta # 0 /\ masterkey.g_alpha # 0) =>
        LET ec == publickey.ellipticCurve
            n == ec.fieldOrder + 1
            H(a) == hashToPoint(ec, ec.fieldOrder, publickey.q, a, StrLen(a),
                                publickey.hashFunction).point
        IN  \E r \in 0..(publickey.q - 1) :
              /\ (masterkey.beta * secretkey.D) % n
                    = (masterkey.g_alpha + r * publickey.g) % n
              /\ \A j \in AttributeSlots :
                    secretkey.attributes[j] # "" =>
                        \E rj \in 0..(publickey.q - 1) :
                           /\ secretkey.DjA[j] = (rj * publickey.g) % n
                           /\ secretkey.Dj[j]
                                 = (r * publickey.g + rj * H(secretkey.attributes[j])) % n

(***************************************************************************)
(* Properties of the shares of the tree and of DecryptNode_ABE.            *)
(***************************************************************************)
\* the value at x of the polynomial of degree d with constant term share
\* and coefficients c[1..d], modulo q
PolyAt(share, c, d, x, q) ==
    LET sum[j \in 0..d] == IF j = 0 THEN share ELSE sum[j - 1] + c[j] * (x ^ j)
    IN  sum[d] % q

\* node n and everything below it carry the shares of share: a leaf has
\* Cy = share g and Cy' = share H(attribute); an internal node of threshold k
\* has a polynomial of degree k - 1 with value share at 0 whose value at i
\* is what its i-th child (children[i - 1]) carries
RECURSIVE SharesFit(_, _, _)
SharesFit(tree, n, share) ==
    LET node == tree[n]
        ec == publickey.ellipticCurve
        order == ec.fieldOrder + 1
        H == hashToPoint(ec, ec.fieldOrder, publickey.q, node.attribute,
                         StrLen(node.attribute), publickey.hashFunction).point
    IN  IF isLeaf(node)
        THEN /\ node.Cy = (share * publickey.g) % order
             /\ node.CyA = (share * H) % order
        ELSE \E c \in [1..(node.value - 1) -> 0..(publickey.q - 1)] :
                \A i \in ChildSlots :
                   node.children[i] # 0 =>
                       SharesFit(tree, node.children[i],
                                 PolyAt(share, c, node.value - 1, i + 1, publickey.q))

\* C17: after cryptid_encrypt_ABE has succeeded on a tree all of whose
\* attributes hash to a point, the tree carries the shares of the s of
\* C = s h: every child of an internal node of threshold k has the value at
\* its 1-based index of a polynomial of degree k - 1 whose value at 0 is the
\* share of the node, and every leaf has Cy = share g and Cy' = share
\* H(attribute); no child and no leaf is left out.
C17_SharesDistributed ==
    (/\ done.encrypt = "CRYPTID_SUCCESS"
     /\ \A n \in Leaves(accessTree) : accessTree[n].attribute \notin NoPointIds) =>
        \E s \in 0..(publickey.q - 1) :
           /\ encrypted.C = (s * publickey.h) % (publickey.ellipticCurve.fieldOrder + 1)
           /\ SharesFit(accessTree, 1, s)

\* cryptid_decrypt_ABE has returned after calling DecryptNode_ABE on the
\* root, an internal node
DecryptedInternalRoot ==
    /\ DecryptedABE
    /\ inner.nodeCalls > 0
    /\ ~isLeaf(accessTree[1])

\* the children of the root that DecryptNode_ABE decrypts with statusCode 1
SuccessfulChildren ==
    {i \in ChildSlots :
        /\ accessTree[1].children[i] # 0
        /\ DecryptNode_ABE(accessTree, accessTree[1].children[i], secretkey,
                           publickey).code = 1}

\* C18: DecryptNode_ABE on an internal node of threshold k sets statusCode
\* to 1 only if at least k of its children were decrypted with statusCode
\* 1; with fewer it reports failure (statusCode 0).
C18_NodeThreshold ==
    DecryptedInternalRoot =>
        (DecryptNode_ABE(accessTree, 1, secretkey, publickey).code = 1
            <=> Cardinality(SuccessfulChildren) >= accessTree[1].value)

\* the Lagrange coefficient at 0 of index i with respect to the indices S,
\* in the integers modulo q: the product over j in S, j # i, of (-j) / (i - j)
RECURSIVE LagrangeAtZero(_, _, _)
LagrangeAtZero(i, S, q) ==
    IF S \ {i} = {} THEN 1 % q
    ELSE LET j == CHOOSE k \in S \ {i} : TRUE
             minusJ == (q - (j % q)) % q
             diff == ((i % q) + q - (j % q)) % q
         IN  (minusJ * ModInverse(diff, q) * LagrangeAtZero(i, S \ {j}, q)) % q

\* the product over the children slots in T of F_i ^ LagrangeAtZero(i, S),
\* child slot c having index c + 1 and F_i being what DecryptNode_ABE
\* computes for that child
RECURSIVE CombinedValue(_, _)
CombinedValue(T, S) ==
    IF T = {} THEN <<1, 0>>
    ELSE LET c == CHOOSE k \in T : TRUE
             p == publickey.ellipticCurve.fieldOrder
             F == DecryptNode_ABE(accessTree, accessTree[1].children[c], secretkey,
                                  publickey).value
             e == LagrangeAtZero(c + 1, {k + 1 : k \in S}, publickey.q)
         IN  complex_modMul(complex_modPow(F, e, p), CombinedValue(T \ {c}, S), p)

\* C19: when DecryptNode_ABE reports success at an internal node of which
\* at least k children succeeded, its
\* result is the product, over a set S of k successful children, of each
\* child's own value F_i raised to the Lagrange coefficient at 0 of that
\* child's own index with respect to S, and the call read no entry of the
\* child-value and index arrays other than those filled for successful
\* children.
C19_Combination ==
    (/\ DecryptedInternalRoot
     /\ Cardinality(SuccessfulChildren) >= accessTree[1].value
     /\ DecryptNode_ABE(accessTree, 1, secretkey, publickey).code = 1) =>
        /\ ~DecryptNode_ABE(accessTree, 1, secretkey, publickey).undefined
        /\ DecryptNode_ABE(accessTree, 1, secretkey, publickey).written
        /\ \E S \in SUBSET SuccessfulChildren :
              /\ Cardinality(S) = accessTree[1].value
              /\ DecryptNode_ABE(accessTree, 1, secretkey, publickey).value
                    = CombinedValue(S, S)

(***************************************************************************)
(* Properties of Lagrange_coefficient.                                     *)
(***************************************************************************)
\* C20: for every array S of distinct child indices and every xi of S,
\* Lagrange_coefficient(xi, S, n, 0) is the product over j in S, j # xi, of
\* (-j) (xi - j)^-1 computed modulo q with modular inverses, and the
\* exponent made of it is that residue, in [0, q).
C20_LagrangeModular ==
    lagrange.at = "exponent" =>
        \A q \in SolinasPrimes :
           /\ lagrange.resultMpz.wraps = 0
           /\ lagrange.resultMpz.low \in 0..(q - 1)
           /\ lagrange.resultMpz.low
                 = LagrangeAtZero(lagrange.xi,
                                  {lagrange.S[k] : k \in DOMAIN lagrange.S}, q)

(***************************************************************************)
(* Properties of the message integer, of the result of DecryptNode_ABE and *)
(* of the public key of the secret key.                                    *)
(***************************************************************************)
\* the integer whose words, most significant first, are values is below p
\* (p is less than 2^64, the weight of the second word)
WordsBelow(values, p) ==
    /\ \A k \in 1..(Len(values) - 1) : values[k] = 0
    /\ values[Len(values)] < p

\* C21: the integer M that a successful cryptid_encrypt_ABE multiplied
\* into egg_alpha^s is strictly smaller than p; a message that encodes to
\* p or more is split into blocks below p and is never multiplied whole.
C21_MessageBelowP ==
    done.encrypt = "CRYPTID_SUCCESS" =>
        WordsBelow(messageValues(abePlain), publickey.ellipticCurve.fieldOrder)

\* C22: whenever the DecryptNode_ABE that cryptid_decrypt_ABE called set
\* statusCode to 1 (at a leaf, or at an internal node with its threshold of
\* successful children), it wrote the value it computed into the Complex
\* that the caller passed as result, so the A that line 485 reads is a
\* value the call wrote.
C22_ResultWritten ==
    (/\ DecryptedABE
     /\ inner.nodeCalls > 0
     /\ \/ isLeaf(accessTree[1])
        \/ Cardinality(SuccessfulChildren) >= accessTree[1].value
     /\ DecryptNode_ABE(accessTree, 1, secretkey, publickey).code = 1) =>
        DecryptNode_ABE(accessTree, 1, secretkey, publickey).written

\* C23: whenever cryptid_keygen_ABE has returned success, the pubkey of the
\* secret key is the public key of the master key, for every attribute
\* list, the one without a non-empty attribute included.
C23_PubkeyLinked ==
    done.keygen = "CRYPTID_SUCCESS" =>
        /\ secretkey.pubkey # "unset"
        /\ secretkey.pubkey = masterkey.pubkey

=============================================================================
